---- MODULE Spec2Model ----
(***************************************************************************)
(* Release repository (src/infra/repositories/release/index.js).           *)
(*                                                                         *)
(* Three specifications over one set of variables:                         *)
(*   Spec        the image operations (createImages, getAllImages,         *)
(*               destroyImage) run by concurrent callers against the       *)
(*               release and release_images tables;                        *)
(*   SpecFilter  the filterMappings functions applied to raw values;       *)
(*   SpecCount   countLikeReleases against a table of releases.            *)
(*                                                                         *)
(* Strings are sequences of one-character strings.  A column value is      *)
(* Null or Val(v), so that SQL's NULL is distinct from every value.        *)
(***************************************************************************)
EXTENDS Integers, Sequences, FiniteSets, TLC

VARIABLES
    releases,       \* releases table: release id -> row [slug]
    images,         \* release_images table: image id -> row [releaseId, url]
    nextId,         \* next auto-generated image id
    promiseHasMap,  \* whether the ORM's promises have a map method (Bluebird) or not (native)
    pc,             \* per caller: position inside the running operation
    op,             \* per caller: the operation running
    arg,            \* per caller: the id argument
    imgs,           \* per caller: the images argument of createImages
    newImages,      \* per caller: createImages' local newImages
    result,         \* per caller: what the operation settled with
    calls,          \* operations started so far
    now,            \* the clock read by moment.utc()
    key,            \* the filterMappings key last applied
    value,          \* the raw value it was applied to
    at,             \* the clock when it was applied
    out,            \* what the filter function did: a filter returned, or an error thrown
    countPc,        \* countLikeReleases: "idle", or "done" once it has resolved
    slugArg,        \* countLikeReleases' argument
    count           \* countLikeReleases' result

storeVars  == <<releases, images, nextId, promiseHasMap, pc, op, arg, imgs, newImages, result, calls>>
filterVars == <<now, key, value, at, out>>
countVars  == <<countPc, slugArg, count>>
vars       == <<storeVars, filterVars, countVars>>

(***************************************************************************)
(* Bounds                                                                  *)
(***************************************************************************)
NumCallers  == 2   \* concurrent callers of the repository
MaxRelease  == 1   \* release ids 1..MaxRelease
MaxImages   == 2   \* image rows ever inserted
MaxBatch    == 2   \* images passed to one createImages call
MaxCalls    == 3   \* operations started in one run
MaxLen      == 3   \* characters in a raw filter value or a slug prefix
MaxColLen   == 2   \* characters in a text column of a release row
MaxNow      == 3   \* the clock runs from 0 to MaxNow
TicksPerDay == 2   \* clock ticks in one UTC day
MaxArray    == 2   \* elements in an array-valued filter value
MaxFlagLen  == 1   \* characters in the value given to outdated or coming

Callers    == 1..NumCallers
ReleaseIds == 1..MaxRelease
ImageIds   == 1..MaxImages

Null   == [isNull |-> TRUE]
Val(v) == [isNull |-> FALSE, v |-> v]

None == [kind |-> "none"]

(***************************************************************************)
(* Sequence helpers                                                        *)
(***************************************************************************)
RECURSIVE SeqsUpTo(_, _)
SeqsUpTo(S, n) ==
    IF n = 0 THEN {<<>>}
    ELSE LET shorter == SeqsUpTo(S, n - 1)
         IN  shorter \cup {Append(s, x) : s \in {t \in shorter : Len(t) = n - 1}, x \in S}

RECURSIVE SortedSeq(_)
SortedSeq(S) ==
    IF S = {} THEN <<>>
    ELSE LET m == CHOOSE x \in S : \A y \in S : x <= y
         IN  <<m>> \o SortedSeq(S \ {m})

Range(s) == {s[i] : i \in DOMAIN s}

(***************************************************************************)
(* The image operations                                                    *)
(***************************************************************************)
Urls == {"u"}

\* an element of createImages' images argument: the image's payload, without a
\* release (associating it is addImages' part)
ImageInputs == [releaseId : {Null}, url : Urls]

\* model.findOne({ where: { id } }): the row's id, or Null when there is none
findOne(id) == IF id \in DOMAIN releases THEN Val(id) ELSE Null

\* src/domain/release ReleaseImage(dataValues): the domain image built from a row
ReleaseImage(dataValues) ==
    [entity |-> "ReleaseImage", id |-> dataValues.id,
     releaseId |-> dataValues.releaseId, url |-> dataValues.url]

\* releaseImageModel.bulkCreate(images): the instances created, ids generated in order
bulkCreate(list) ==
    [i \in 1..Len(list) |->
        [id |-> nextId + i - 1, releaseId |-> list[i].releaseId, url |-> list[i].url]]

\* the table after bulkCreate(images)
ImagesAfterBulkCreate(list) ==
    LET created == bulkCreate(list)
        ids     == {created[i].id : i \in DOMAIN created}
    IN  [j \in DOMAIN images \cup ids |->
            IF j \in ids
            THEN LET i == CHOOSE i \in DOMAIN created : created[i].id = j
                 IN  [releaseId |-> created[i].releaseId, url |-> created[i].url]
            ELSE images[j]]

\* addImages that associates the first instance only
ImagesAfterAddImagesFirstOnly(id, instances) ==
    [j \in DOMAIN images |->
        IF instances # <<>> /\ j = instances[1].id
        THEN [images[j] EXCEPT !.releaseId = Val(id)] ELSE images[j]]

\* the table after release.addImages(newImages): the rows' foreign key is set
ImagesAfterAddImages(id, instances) ==
    LET ids == {instances[i].id : i \in DOMAIN instances}
    IN  [j \in DOMAIN images |->
            IF j \in ids THEN [images[j] EXCEPT !.releaseId = Val(id)] ELSE images[j]]

\* release.getImages(): the rows whose foreign key is the release, as instances
getImages(id) ==
    LET ids == SortedSeq({j \in DOMAIN images : images[j].releaseId = Val(id)})
    IN  [i \in DOMAIN ids |->
            [dataValues |-> [id |-> ids[i], releaseId |-> images[ids[i]].releaseId,
                             url |-> images[ids[i]].url]]]

\* destroy with the where clause on the foreign key instead of the primary key
ImagesAfterDestroyByRelease(id) ==
    [j \in {k \in DOMAIN images : images[k].releaseId # Val(id)} |-> images[j]]

\* releaseImageModel.destroy({ where: { id } }): the table without that row
ImagesAfterDestroy(id) == [j \in DOMAIN images \ {id} |-> images[j]]

\* image ids reserved by createImages calls that have not inserted yet
Pending == LET RECURSIVE Sum(_)
               Sum(S) == IF S = {} THEN 0
                         ELSE LET c == CHOOSE c \in S : TRUE
                              IN  Len(imgs[c]) + Sum(S \ {c})
           IN  Sum({c \in Callers : pc[c] = "bulkCreate"})

\* caller c is inside no operation, and may start one
Idle(c) == pc[c] = "idle" /\ calls < MaxCalls

Settle(c, r) ==
    /\ pc' = [pc EXCEPT ![c] = "done"]
    /\ result' = [result EXCEPT ![c] = r]

\* createImages without the check of the lookup's result
CreateImagesFindOneUnchecked(c, id, list) ==
    /\ nextId - 1 + Pending + Len(list) <= MaxImages
    /\ op' = [op EXCEPT ![c] = "createImages"]
    /\ arg' = [arg EXCEPT ![c] = id]
    /\ imgs' = [imgs EXCEPT ![c] = list]
    /\ pc' = [pc EXCEPT ![c] = "bulkCreate"]
    /\ calls' = calls + 1
    /\ UNCHANGED <<releases, images, nextId, promiseHasMap, newImages, result,
                   filterVars, countVars>>

\* createImages, lines 161-166: the lookup and the EntityNotFound throw
CreateImagesFindOne(c, id, list) ==
    /\ nextId - 1 + Pending + Len(list) <= MaxImages
    /\ op' = [op EXCEPT ![c] = "createImages"]
    /\ arg' = [arg EXCEPT ![c] = id]
    /\ imgs' = [imgs EXCEPT ![c] = list]
    /\ IF findOne(id) = Null
       THEN Settle(c, [kind |-> "EntityNotFound"])
       ELSE /\ pc' = [pc EXCEPT ![c] = "bulkCreate"]
            /\ UNCHANGED result
    /\ calls' = calls + 1
    /\ UNCHANGED <<releases, images, nextId, promiseHasMap, newImages, filterVars, countVars>>

\* createImages, line 167: await releaseImageModel.bulkCreate(images)
CreateImagesBulkCreate(c) ==
    /\ pc[c] = "bulkCreate"
    /\ newImages' = [newImages EXCEPT ![c] = bulkCreate(imgs[c])]
    /\ images' = ImagesAfterBulkCreate(imgs[c])
    /\ nextId' = nextId + Len(imgs[c])
    /\ pc' = [pc EXCEPT ![c] = "addImages"]
    /\ UNCHANGED <<releases, promiseHasMap, op, arg, imgs, result, filterVars, countVars, calls>>

\* createImages, lines 168-169: await release.addImages(newImages); return newImages
CreateImagesAddImages(c) ==
    /\ pc[c] = "addImages"
    /\ images' = ImagesAfterAddImages(arg[c], newImages[c])
    /\ Settle(c, [kind |-> "ok", value |-> newImages[c]])
    /\ UNCHANGED <<releases, nextId, promiseHasMap, op, arg, imgs, newImages, filterVars, countVars, calls>>

\* createImages, line 168: the backend rejects release.addImages; nothing catches it
CreateImagesAddImagesFails(c) ==
    /\ pc[c] = "addImages"
    /\ Settle(c, [kind |-> "BackendError"])
    /\ UNCHANGED <<releases, images, nextId, promiseHasMap, op, arg, imgs, newImages, filterVars, countVars, calls>>

\* getAllImages, lines 178-183: the lookup and the EntityNotFound throw
GetAllImagesFindOne(c, id) ==
    /\ op' = [op EXCEPT ![c] = "getAllImages"]
    /\ arg' = [arg EXCEPT ![c] = id]
    /\ IF findOne(id) = Null
       THEN Settle(c, [kind |-> "EntityNotFound"])
       ELSE /\ pc' = [pc EXCEPT ![c] = "getImages"]
            /\ UNCHANGED result
    /\ calls' = calls + 1
    /\ UNCHANGED <<releases, images, nextId, promiseHasMap, imgs, newImages, filterVars, countVars>>

\* getAllImages, lines 184-191: images is the promise release.getImages() returns,
\* not awaited: never falsy, and images.map is the promise's map method when it has
\* one (it then maps the rows the query resolves to) and a TypeError when it has none
GetAllImagesMap(c) ==
    /\ pc[c] = "getImages"
    /\ IF promiseHasMap
       THEN LET rows == getImages(arg[c])
            IN  Settle(c, [kind |-> "ok",
                           value |-> [i \in DOMAIN rows |-> ReleaseImage(rows[i].dataValues)]])
       ELSE Settle(c, [kind |-> "TypeError"])
    /\ UNCHANGED <<releases, images, nextId, promiseHasMap, op, arg, imgs, newImages, filterVars, countVars, calls>>

\* destroyImage, line 221: resolves to the number of rows deleted
DestroyImage(c, id) ==
    /\ op' = [op EXCEPT ![c] = "destroyImage"]
    /\ arg' = [arg EXCEPT ![c] = id]
    /\ images' = ImagesAfterDestroy(id)
    /\ Settle(c, [kind |-> "ok", value |-> IF id \in DOMAIN images THEN 1 ELSE 0])
    /\ calls' = calls + 1
    /\ UNCHANGED <<releases, nextId, promiseHasMap, imgs, newImages, filterVars, countVars>>

\* the caller takes the settled promise and is free for its next call
Return(c) ==
    /\ pc[c] = "done"
    /\ pc' = [pc EXCEPT ![c] = "idle"]
    /\ op' = [op EXCEPT ![c] = "none"]
    /\ arg' = [arg EXCEPT ![c] = 0]
    /\ imgs' = [imgs EXCEPT ![c] = <<>>]
    /\ newImages' = [newImages EXCEPT ![c] = <<>>]
    /\ result' = [result EXCEPT ![c] = None]
    /\ UNCHANGED <<releases, images, nextId, promiseHasMap, filterVars, countVars, calls>>

\* no caller is inside an operation
CallersIdle ==
    /\ calls = 0
    /\ pc = [c \in Callers |-> "idle"]
    /\ op = [c \in Callers |-> "none"]
    /\ arg = [c \in Callers |-> 0]
    /\ imgs = [c \in Callers |-> <<>>]
    /\ newImages = [c \in Callers |-> <<>>]
    /\ result = [c \in Callers |-> None]

\* no image yet; the releases table holds any of the releases; the promises the
\* installed ORM returns either have a map method or have none
StoreInit ==
    /\ \E ids \in SUBSET ReleaseIds : releases = [r \in ids |-> [slug |-> Val(<<>>)]]
    /\ images = <<>>
    /\ nextId = 1
    /\ promiseHasMap \in BOOLEAN
    /\ CallersIdle

FilterIdle ==
    /\ now = 0
    /\ key = "none"
    /\ value = <<>>
    /\ at = 0
    /\ out = None

CountIdle ==
    /\ countPc = "idle"
    /\ slugArg = <<>>
    /\ count = 0

Init == StoreInit /\ FilterIdle /\ CountIdle

\* a caller that is inside no operation starts one
CallCreateImages(c) ==
    /\ Idle(c)
    /\ \E id \in ReleaseIds, list \in SeqsUpTo(ImageInputs, MaxBatch) :
           CreateImagesFindOne(c, id, list)

CallGetAllImages(c) ==
    /\ Idle(c)
    /\ \E id \in ReleaseIds : GetAllImagesFindOne(c, id)

CallDestroyImage(c) ==
    /\ Idle(c)
    /\ \E id \in ImageIds : DestroyImage(c, id)

Next ==
    \/ \E c \in Callers : CallCreateImages(c)
    \/ \E c \in Callers : CreateImagesBulkCreate(c)
    \/ \E c \in Callers : CreateImagesAddImages(c)
    \/ \E c \in Callers : CreateImagesAddImagesFails(c)
    \/ \E c \in Callers : CallGetAllImages(c)
    \/ \E c \in Callers : GetAllImagesMap(c)
    \/ \E c \in Callers : CallDestroyImage(c)
    \/ \E c \in Callers : Return(c)

Spec == Init /\ [][Next]_vars

(***************************************************************************)
(* Text: whitespace split, LIKE, parseInt, parseFloat                      *)
(***************************************************************************)
TextChars == {"a", "b", " ", "%", "_"}
NumChars  == {"0", "1", ".", "-", " ", "a"}

Texts      == SeqsUpTo(TextChars, MaxLen)
NumStrings == SeqsUpTo(NumChars, MaxLen)
ColTexts   == SeqsUpTo(TextChars, MaxColLen)
FlagValues == SeqsUpTo(NumChars, MaxFlagLen)

IsSpace(ch) == ch \in {" ", "\t", "\n", "\r"}
IsDigit(ch) == ch \in {"0", "1", "2", "3", "4", "5", "6", "7", "8", "9"}
DigitVal(ch) ==
    CASE ch = "0" -> 0 [] ch = "1" -> 1 [] ch = "2" -> 2 [] ch = "3" -> 3 [] ch = "4" -> 4
      [] ch = "5" -> 5 [] ch = "6" -> 6 [] ch = "7" -> 7 [] ch = "8" -> 8 [] ch = "9" -> 9

RECURSIVE Pow10(_)
Pow10(n) == IF n = 0 THEN 1 ELSE 10 * Pow10(n - 1)

RECURSIVE DropSpaces(_)
DropSpaces(s) == IF s # <<>> /\ IsSpace(Head(s)) THEN DropSpaces(Tail(s)) ELSE s

RECURSIVE DigitPrefix(_)
DigitPrefix(s) ==
    IF s # <<>> /\ IsDigit(Head(s)) THEN <<Head(s)>> \o DigitPrefix(Tail(s)) ELSE <<>>

RECURSIVE DigitsValue(_)
DigitsValue(d) ==
    IF d = <<>> THEN 0 ELSE 10 * DigitsValue(SubSeq(d, 1, Len(d) - 1)) + DigitVal(d[Len(d)])

Drop(s, n) == SubSeq(s, n + 1, Len(s))

NaN == [nan |-> TRUE]
Num(neg, n) == [nan |-> FALSE, neg |-> neg, n |-> n]

\* an optional sign in front of t: <<negative, the rest>>
Signed(t) ==
    IF t # <<>> /\ Head(t) \in {"-", "+"} THEN <<Head(t) = "-", Tail(t)>> ELSE <<FALSE, t>>

\* String.prototype.split(/\s+/g): the pieces between the runs of whitespace, the
\* empty pieces before a leading run and after a trailing run included
RECURSIVE SplitFrom(_, _)
SplitFrom(s, cur) ==
    IF s = <<>> THEN <<cur>>
    ELSE IF IsSpace(Head(s)) THEN <<cur>> \o SplitFrom(DropSpaces(Tail(s)), <<>>)
    ELSE SplitFrom(Tail(s), Append(cur, Head(s)))

split(s) == SplitFrom(s, <<>>)

\* SQL's s LIKE pat: % stands for any run of characters, _ for any one character;
\* every other character stands for itself (the alphabet has one case, so the
\* column's collation plays no part)
RECURSIVE Like(_, _)
Like(s, pat) ==
    IF pat = <<>> THEN s = <<>>
    ELSE IF Head(pat) = "%" THEN \E k \in 0..Len(s) : Like(Drop(s, k), Tail(pat))
    ELSE /\ s # <<>>
         /\ (Head(pat) = "_" \/ Head(pat) = Head(s))
         /\ Like(Tail(s), Tail(pat))

\* parseInt(value): leading whitespace skipped, an optional sign, then the longest
\* run of digits; NaN when there is none.  n is the magnitude.
parseInt(s) ==
    LET sg == Signed(DropSpaces(s))
        d  == DigitPrefix(sg[2])
    IN  IF d = <<>> THEN NaN ELSE Num(sg[1], DigitsValue(d))

\* parseFloat(value): leading whitespace skipped, an optional sign, then the longest
\* prefix digits[.digits] or .digits; NaN when there is none.  n is the magnitude
\* in units of 10^-MaxLen.
parseFloat(s) ==
    LET sg    == Signed(DropSpaces(s))
        int   == DigitPrefix(sg[2])
        rest  == Drop(sg[2], Len(int))
        frac  == IF rest # <<>> /\ Head(rest) = "." THEN DigitPrefix(Tail(rest)) ELSE <<>>
    IN  IF int = <<>> /\ frac = <<>> THEN NaN
        ELSE Num(sg[1], DigitsValue(int) * Pow10(MaxLen)
                        + DigitsValue(frac) * Pow10(MaxLen - Len(frac)))

\* === 0 on a parsed number: -0 === 0 holds, NaN === 0 does not
IsZero(x) == ~x.nan /\ x.n = 0

(***************************************************************************)
(* Where clauses and their evaluation by the backend                       *)
(***************************************************************************)
Cmp(field, o, v) == [t |-> "cmp", field |-> field, op |-> o, val |-> v]
And(args)        == [t |-> "and", args |-> args]
Or(args)         == [t |-> "or", args |-> args]

\* one comparison on a row, as SQL decides it: [Op.ne]: null is IS NOT NULL, a
\* null value is IS NULL, and any other comparison with a NULL column selects nothing
EvalCmp(p, row) ==
    LET col == row[p.field]
    IN  IF p.val = Null
        THEN IF p.op = "ne" THEN ~col.isNull ELSE col.isNull
        ELSE /\ ~col.isNull
             /\ CASE p.op = "eq"   -> col.v = p.val.v
                  [] p.op = "lt"   -> col.v < p.val.v
                  [] p.op = "lte"  -> col.v <= p.val.v
                  [] p.op = "gte"  -> col.v >= p.val.v
                  [] p.op = "like" -> Like(col.v, p.val.v)

\* a where clause on a row: whether the backend selects the row
RECURSIVE Eval(_, _)
Eval(p, row) ==
    CASE p.t = "cmp" -> EvalCmp(p, row)
      [] p.t = "and" -> \A i \in DOMAIN p.args : Eval(p.args[i], row)
      [] p.t = "or"  -> \E i \in DOMAIN p.args : Eval(p.args[i], row)

(***************************************************************************)
(* filterMappings                                                          *)
(***************************************************************************)
Returned(f) == [kind |-> "returned", filter |-> f]

\* moment.utc().format('YYYY-MM-DD'): the clock's UTC day
formatDay(t) == t \div TicksPerDay

\* new Date('YYYY-MM-DD'): the first instant of that UTC day
DateOf(day) == day * TicksPerDay

\* outdated with <= for <
outdatedInclusive(v) ==
    Returned(And(<<Cmp("releaseDate", "lte", Val(DateOf(formatDay(now)))),
                   Cmp("releaseDate", "ne", Null)>>))

outdated(v) ==
    Returned(And(<<Cmp("releaseDate", "lt", Val(DateOf(formatDay(now)))),
                   Cmp("releaseDate", "ne", Null)>>))

coming(v) ==
    Returned(And(<<Cmp("releaseDate", "gte", Val(DateOf(formatDay(now)))),
                   Cmp("releaseDate", "ne", Null)>>))

\* upcoming with parseFloat for parseInt
upcomingFloat(v) ==
    IF IsZero(parseFloat(v))
    THEN Returned(Cmp("releaseDate", "ne", Null))
    ELSE Returned(Cmp("releaseDate", "eq", Null))

upcoming(v) ==
    IF IsZero(parseInt(v))
    THEN Returned(Cmp("releaseDate", "ne", Null))
    ELSE Returned(Cmp("releaseDate", "eq", Null))

minPriceEUR(v) == Returned(Cmp("priceEUR", "gte", parseFloat(v)))
maxPriceEUR(v) == Returned(Cmp("priceEUR", "lte", parseFloat(v)))
minPriceGBP(v) == Returned(Cmp("priceGBP", "gte", parseFloat(v)))
maxPriceGBP(v) == Returned(Cmp("priceGBP", "lte", parseFloat(v)))
minPriceUSD(v) == Returned(Cmp("priceUSD", "gte", parseFloat(v)))
maxPriceUSD(v) == Returned(Cmp("priceUSD", "lte", parseFloat(v)))

\* raw date values, and what moment.utc(value) makes of each: a moment at an
\* instant, or an invalid moment; it throws for none
DateInputs == {"1970-01-01", "1970-01-02", "1970-02-31", "soon", ""}

momentUtc(v) ==
    CASE v = "1970-01-01" -> [valid |-> TRUE, t |-> DateOf(0)]
      [] v = "1970-01-02" -> [valid |-> TRUE, t |-> DateOf(1)]
      [] OTHER            -> [valid |-> FALSE]

fromDate(v) == Returned(Cmp("releaseDate", "gte", momentUtc(v)))
toDate(v)   == Returned(Cmp("releaseDate", "lte", momentUtc(v)))

\* raw gender values: a scalar, or an array of scalars
Genders == {"m", "f", "k", "u"}
Scalar(v)    == [isArray |-> FALSE, v |-> v]
Array(items) == [isArray |-> TRUE, items |-> items]
GenderInputs ==
    {Scalar(g) : g \in Genders} \cup {Array(a) : a \in SeqsUpTo(Genders, MaxArray)}

\* { field: { [Op.or]: [v1, ..., vn] } }: field = v1 OR ... OR field = vn
OrOfEquals(field, vs) == Or([i \in DOMAIN vs |-> Cmp(field, "eq", Val(vs[i]))])

\* gender without the appended 'u'
genderAsGiven(v) ==
    Returned(OrOfEquals("gender", IF v.isArray THEN v.items ELSE <<v.v>>))

gender(v) ==
    Returned(OrOfEquals("gender", IF v.isArray THEN v.items \o <<"u">> ELSE <<v.v, "u">>))

query(v) ==
    LET words == split(v)
        likes(field) ==
            [i \in DOMAIN words |-> Cmp(field, "like", Val(<<"%">> \o words[i] \o <<"%">>))]
    IN  Returned(Or(<<And(likes("name")), And(likes("sku"))>>))

\* no call of a filterMappings function is in progress
NoCall == key = "none"

\* one call of a filterMappings function
Call(k, v) ==
    /\ key' = k
    /\ value' = v
    /\ at' = now
    /\ UNCHANGED <<now, storeVars, countVars>>

ApplyOutdated ==
    /\ NoCall
    /\ \E v \in FlagValues :
        /\ Call("outdated", v)
        /\ out' = outdated(v)

ApplyComing ==
    /\ NoCall
    /\ \E v \in FlagValues :
        /\ Call("coming", v)
        /\ out' = coming(v)

ApplyUpcoming ==
    /\ NoCall
    /\ \E v \in NumStrings :
        /\ Call("upcoming", v)
        /\ out' = upcoming(v)

ApplyMinPriceEUR ==
    /\ NoCall
    /\ \E v \in NumStrings :
        /\ Call("minPriceEUR", v)
        /\ out' = minPriceEUR(v)

ApplyMaxPriceEUR ==
    /\ NoCall
    /\ \E v \in NumStrings :
        /\ Call("maxPriceEUR", v)
        /\ out' = maxPriceEUR(v)

ApplyMinPriceGBP ==
    /\ NoCall
    /\ \E v \in NumStrings :
        /\ Call("minPriceGBP", v)
        /\ out' = minPriceGBP(v)

ApplyMaxPriceGBP ==
    /\ NoCall
    /\ \E v \in NumStrings :
        /\ Call("maxPriceGBP", v)
        /\ out' = maxPriceGBP(v)

ApplyMinPriceUSD ==
    /\ NoCall
    /\ \E v \in NumStrings :
        /\ Call("minPriceUSD", v)
        /\ out' = minPriceUSD(v)

ApplyMaxPriceUSD ==
    /\ NoCall
    /\ \E v \in NumStrings :
        /\ Call("maxPriceUSD", v)
        /\ out' = maxPriceUSD(v)

ApplyFromDate ==
    /\ NoCall
    /\ \E v \in DateInputs :
        /\ Call("fromDate", v)
        /\ out' = fromDate(v)

ApplyToDate ==
    /\ NoCall
    /\ \E v \in DateInputs :
        /\ Call("toDate", v)
        /\ out' = toDate(v)

ApplyGender ==
    /\ NoCall
    /\ \E v \in GenderInputs :
        /\ Call("gender", v)
        /\ out' = gender(v)

ApplyQuery ==
    /\ NoCall
    /\ \E v \in Texts :
        /\ Call("query", v)
        /\ out' = query(v)

\* the caller has taken the filter
FilterTaken ==
    /\ key # "none"
    /\ key' = "none"
    /\ value' = <<>>
    /\ at' = 0
    /\ out' = None
    /\ UNCHANGED <<now, storeVars, countVars>>

\* time passes
Tick ==
    /\ now < MaxNow
    /\ now' = now + 1
    /\ UNCHANGED <<key, value, at, out, storeVars, countVars>>

FilterInit ==
    /\ releases = <<>>
    /\ images = <<>>
    /\ nextId = 1
    /\ promiseHasMap = TRUE
    /\ CallersIdle
    /\ FilterIdle
    /\ CountIdle

FilterNext ==
    \/ ApplyOutdated
    \/ ApplyComing
    \/ ApplyUpcoming
    \/ ApplyMinPriceEUR
    \/ ApplyMaxPriceEUR
    \/ ApplyMinPriceGBP
    \/ ApplyMaxPriceGBP
    \/ ApplyMinPriceUSD
    \/ ApplyMaxPriceUSD
    \/ ApplyFromDate
    \/ ApplyToDate
    \/ ApplyGender
    \/ ApplyQuery
    \/ FilterTaken
    \/ Tick

SpecFilter == FilterInit /\ [][FilterNext]_vars

(***************************************************************************)
(* countLikeReleases                                                       *)
(***************************************************************************)
\* model.findAll({ where: { slug: { [Op.like]: `${slug}%` } } }): the ids selected
findAllLikeSlug(slug) ==
    {r \in DOMAIN releases :
        Eval(Cmp("slug", "like", Val(slug \o <<"%">>)), releases[r])}

\* findAll resolves to an array, never to a falsy value: the result is its length
CountLikeReleases(slug) ==
    /\ countPc' = "done"
    /\ slugArg' = slug
    /\ count' = Cardinality(findAllLikeSlug(slug))
    /\ UNCHANGED <<storeVars, filterVars>>

\* the caller has taken the count
CountTaken ==
    /\ countPc = "done"
    /\ countPc' = "idle"
    /\ slugArg' = <<>>
    /\ count' = 0
    /\ UNCHANGED <<storeVars, filterVars>>

\* the releases table holds any rows, with any slugs
CountInit ==
    /\ \E ids \in SUBSET ReleaseIds :
           releases \in [ids -> [slug : {Val(t) : t \in ColTexts}]]
    /\ images = <<>>
    /\ nextId = 1
    /\ promiseHasMap = TRUE
    /\ CallersIdle
    /\ FilterIdle
    /\ CountIdle

\* a call of countLikeReleases, made when none is in progress
CallCountLikeReleases ==
    /\ countPc = "idle"
    /\ \E slug \in Texts : CountLikeReleases(slug)

CountNext ==
    \/ CallCountLikeReleases
    \/ CountTaken

SpecCount == CountInit /\ [][CountNext]_vars

(***************************************************************************)
(* Claims about the image operations (checked under Spec)                  *)
(***************************************************************************)
Exists(id) == id \in DOMAIN images

\* the step in which caller c starts operation o
Starts(c, o) == pc[c] = "idle" /\ op'[c] = o

\* C1: createImages on an id with no release settles with EntityNotFound in its
\* first step, and that step inserts nothing: the image rows, their associations and
\* the id counter are as before, and the call has created no instance.
C1_NoInsertWithoutRelease ==
    [][\A c \in Callers :
        (Starts(c, "createImages") /\ arg'[c] \notin DOMAIN releases)
        => /\ images' = images
           /\ nextId' = nextId
           /\ pc'[c] = "done"
           /\ result'[c] = [kind |-> "EntityNotFound"]
           /\ newImages'[c] = <<>>]_vars

C1_Witness ==
    \E c \in Callers :
        /\ pc[c] = "done" /\ op[c] = "createImages"
        /\ arg[c] \notin DOMAIN releases
        /\ imgs[c] # <<>>
        /\ result[c].kind = "EntityNotFound"

\* the domain images of the release's rows, in id order, read from the table
AssociatedImages(id) ==
    LET ids == SortedSeq({j \in DOMAIN images : images[j].releaseId = Val(id)})
    IN  [i \in DOMAIN ids |->
            [entity |-> "ReleaseImage", id |-> ids[i],
             releaseId |-> Val(id), url |-> images[ids[i]].url]]

\* C2: getAllImages on an existing release settles with the sequence of the
\* release's associated images, each converted with ReleaseImage (the empty sequence
\* when it has none), and it settles with an error, EntityNotFound, only when the
\* release is absent.
C2_GetAllImagesReturnsImages ==
    [][\A c \in Callers :
        /\ (Starts(c, "getAllImages") /\ arg'[c] \notin DOMAIN releases)
           => (pc'[c] = "done" /\ result'[c] = [kind |-> "EntityNotFound"])
        /\ (op[c] = "getAllImages" /\ pc[c] = "getImages" /\ pc'[c] = "done")
           => result'[c] = [kind |-> "ok", value |-> AssociatedImages(arg[c])]]_vars

\* C9: destroyImage removes the row with the given id and nothing else: the
\* releases and every other image row are unchanged; on an id that is absent (a
\* second call with the same id included) the tables are unchanged; it never fails.
C9_DestroyImageOnlyThatRow ==
    [][\A c \in Callers :
        Starts(c, "destroyImage")
        => /\ releases' = releases
           /\ DOMAIN images' = DOMAIN images \ {arg'[c]}
           /\ \A j \in DOMAIN images' : images'[j] = images[j]
           /\ (~Exists(arg'[c]) => images' = images)
           /\ pc'[c] = "done"
           /\ result'[c].kind = "ok"]_vars

C9_Witness ==
    \E c, d \in Callers :
        /\ c # d
        /\ pc[c] = "done" /\ op[c] = "destroyImage" /\ result[c] = [kind |-> "ok", value |-> 1]
        /\ pc[d] = "done" /\ op[d] = "destroyImage" /\ result[d] = [kind |-> "ok", value |-> 0]
        /\ arg[c] = arg[d]
        /\ images # <<>>

\* the rows a createImages call inserted that are in the table
InsertedRows(c) == {newImages[c][i].id : i \in DOMAIN newImages[c]} \cap DOMAIN images

\* C10: when both steps of createImages complete, every row the call inserted is
\* associated with the requested release; between the steps, and after a failure of
\* the second, the rows are in the table as they were inserted (C10_Witness,
\* C10_OrphansSeenByConcurrentCaller).
C10_CompletedCallAssociates ==
    \A c \in Callers :
        (pc[c] = "done" /\ op[c] = "createImages" /\ result[c].kind = "ok")
        => \A j \in InsertedRows(c) : images[j].releaseId = Val(arg[c])

\* one call completed and associated its rows; another failed between the steps
\* and left a row without a release
C10_Witness ==
    \E c, d \in Callers :
        /\ pc[c] = "done" /\ op[c] = "createImages" /\ result[c].kind = "ok"
        /\ InsertedRows(c) # {}
        /\ pc[d] = "done" /\ op[d] = "createImages" /\ result[d].kind = "BackendError"
        /\ \E j \in InsertedRows(d) : images[j].releaseId = Null

\* a getAllImages call on the same release settled between the two steps of a
\* createImages call, without the rows that call had already inserted
C10_OrphansSeenByConcurrentCaller ==
    \E c, d \in Callers :
        /\ pc[c] = "addImages" /\ InsertedRows(c) # {}
        /\ \A j \in InsertedRows(c) : images[j].releaseId = Null
        /\ pc[d] = "done" /\ op[d] = "getAllImages" /\ arg[d] = arg[c]
        /\ result[d] = [kind |-> "ok", value |-> <<>>]

(***************************************************************************)
(* Claims about filterMappings (checked under SpecFilter)                  *)
(***************************************************************************)
NullableColTexts == {Null} \cup {Val(t) : t \in ColTexts}

\* the columns of a release row that each filter reads
TextRows   == [name : NullableColTexts, sku : NullableColTexts]
DateRows   == [releaseDate : {Null} \cup {Val(t) : t \in 0..(MaxNow + TicksPerDay)}]
GenderRows == [gender : {Null} \cup {Val(g) : g \in Genders}]

\* t occurs in s as literal text
IsSubstring(t, s) == \E i \in 0..(Len(s) - Len(t)) : SubSeq(s, i + 1, i + Len(t)) = t

\* s starts with t as literal text
IsPrefix(t, s) == Len(t) <= Len(s) /\ SubSeq(s, 1, Len(t)) = t

\* the tokens the query filter searches for: its LIKE patterns without the
\* surrounding %
QueryTokens(f) ==
    LET likes == f.args[1].args
    IN  [i \in DOMAIN likes |-> SubSeq(likes[i].val.v, 2, Len(likes[i].val.v) - 1)]

EveryTokenIn(tokens, col) ==
    ~col.isNull /\ \A i \in DOMAIN tokens : IsSubstring(tokens[i], col.v)

C3_NoEmptyToken ==
    key = "query" => \A i \in DOMAIN QueryTokens(out.filter) : QueryTokens(out.filter)[i] # <<>>

C3_MatchesIffEveryTokenIsSubstring ==
    key = "query" =>
        \A r \in TextRows :
            Eval(out.filter, r)
            <=> (EveryTokenIn(QueryTokens(out.filter), r.name)
                 \/ EveryTokenIn(QueryTokens(out.filter), r.sku))

\* C3: for every string given to the query filter, no token it is split into is
\* empty, and the filter selects a release exactly when every token is a substring
\* of its name or every token is a substring of its sku.
C3_QueryTokensAreSubstrings == C3_NoEmptyToken /\ C3_MatchesIffEveryTokenIsSubstring

PriceKeys == {"minPriceEUR", "maxPriceEUR", "minPriceGBP", "maxPriceGBP",
              "minPriceUSD", "maxPriceUSD"}
DateKeys  == {"fromDate", "toDate"}

\* s is a decimal number written out in full: sign, digits, fraction
IsNumeric(s) ==
    LET body == IF s # <<>> /\ s[1] \in {"-", "+"} THEN Tail(s) ELSE s
        dots == {i \in DOMAIN body : body[i] = "."}
    IN  /\ \E i \in DOMAIN body : IsDigit(body[i])
        /\ \A i \in DOMAIN body : IsDigit(body[i]) \/ body[i] = "."
        /\ Cardinality(dots) <= 1

\* the date values that name a day of the calendar
CalendarDates == {"1970-01-01", "1970-01-02"}

Malformed ==
    \/ key \in PriceKeys /\ ~IsNumeric(value)
    \/ key \in DateKeys /\ value \notin CalendarDates

\* C4: a numeric or date filter given a malformed value fails with a
\* ValidationError and returns no filter to pass on to the backend.
C4_MalformedValueRaises ==
    Malformed => out = [kind |-> "thrown", error |-> "ValidationError"]

\* the first instant of the UTC day the clock is in
Today(t) == CHOOSE d \in 0..t : d % TicksPerDay = 0 /\ t - d < TicksPerDay

\* C5: with the current UTC date fixed, a release with a releaseDate is selected
\* by exactly one of outdated (releaseDate before the current date) and coming
\* (releaseDate on or after it); a release without one is selected by neither; the
\* value given to either filter does not change its filter.
C5_OutdatedComingPartition ==
    (key \in {"outdated", "coming"} /\ Today(now) = Today(at)) =>
        LET o == IF key = "outdated" THEN out.filter ELSE outdated(value).filter
            c == IF key = "coming" THEN out.filter ELSE coming(value).filter
        IN  /\ \A r \in DateRows :
                IF r.releaseDate = Null
                THEN ~Eval(o, r) /\ ~Eval(c, r)
                ELSE /\ Eval(o, r) <=> r.releaseDate.v < Today(at)
                     /\ Eval(c, r) <=> r.releaseDate.v >= Today(at)
                     /\ Eval(o, r) # Eval(c, r)
            /\ \A v \in FlagValues :
                out = IF key = "outdated" THEN outdated(v) ELSE coming(v)

\* outdated applied in the middle of a later day than the first
C5_Witness ==
    /\ key = "outdated" /\ out.kind = "returned"
    /\ at = now /\ Today(at) > 0 /\ at > Today(at)
    /\ value # <<>>

\* the values a gender value asks for
Requested(v) == IF v.isArray THEN Range(v.items) ELSE {v.v}

\* C6: for every gender value, scalar or array, the filter selects a release
\* exactly when its gender is one of the requested values or 'u'.
C6_GenderIncludesUnisex ==
    key = "gender" =>
        \A r \in GenderRows :
            Eval(out.filter, r)
            <=> (r.gender # Null /\ r.gender.v \in Requested(value) \cup {"u"})

\* gender 'm': selects 'm' and 'u', not 'f'
C6_Witness ==
    /\ key = "gender" /\ value = Scalar("m")
    /\ Eval(out.filter, [gender |-> Val("m")])
    /\ Eval(out.filter, [gender |-> Val("u")])
    /\ ~Eval(out.filter, [gender |-> Val("f")])

NotNullDate == Cmp("releaseDate", "ne", Null)
NullDate    == Cmp("releaseDate", "eq", Null)

\* s without the whitespace around it
RECURSIVE Trim(_)
Trim(s) ==
    IF s # <<>> /\ IsSpace(s[Len(s)]) THEN Trim(SubSeq(s, 1, Len(s) - 1)) ELSE DropSpaces(s)

\* s written out in full is a zero: sign, digits all 0, fraction digits all 0
IsZeroLiteral(s) ==
    /\ IsNumeric(Trim(s))
    /\ \A i \in DOMAIN s : IsDigit(s[i]) => s[i] = "0"

StartsWithZeroInteger(s) ==
    \E w \in 0..Len(s), g \in 0..1, z \in 1..Len(s) :
        /\ w + g + z <= Len(s)
        /\ \A k \in 1..w : IsSpace(s[k])
        /\ g = 1 => s[w + 1] \in {"-", "+"}
        /\ \A k \in (w + g + 1)..(w + g + z) : s[k] = "0"
        /\ w + g + z < Len(s) => ~IsDigit(s[w + g + z + 1])

C8_CountsLiteralPrefix ==
    countPc = "done" =>
        count = Cardinality({r \in DOMAIN releases : IsPrefix(slugArg, releases[r].slug.v)})

====
